---- MODULE Spec2Model ----
(***************************************************************************)
(* A model of the MarkovChain controller of markiavelli                    *)
(* (src/classes/chain.py) together with the Content objects it reads       *)
(* (src/content.py).                                                       *)
(*                                                                         *)
(* A token is a sequence of one-character strings, a string is a sequence  *)
(* of characters in which " " separates tokens, a prefix key is a tuple of *)
(* tokens and a table is a function from its keys to suffix lists.  The    *)
(* tables of the program are defaultdict(list): reading a missing key      *)
(* inserts it with an empty list.                                          *)
(***************************************************************************)
EXTENDS Integers, Sequences, FiniteSets, TLC

VARIABLES
    content_objs,          \* self.content_objs: the Content objects
    n,                     \* self.n
    context_keywords,      \* self.context_keywords (the keys of the dict)
    transitions,           \* self.transitions
    weighted_transitions,  \* self.weighted_transitions
    aliased,               \* weighted_transitions is the object transitions
    start_states,          \* self.start_states
    pc,                    \* "idle"; inside generate_sentence "walking", at
                           \* its end "returned"
    chain,                 \* the local chain of generate_sentence
    min_length,            \* argument of the running / last generate_sentence
    length_error,          \* argument of the running / last generate_sentence
    start,                 \* argument of the running / last generate_sentence
    steps,                 \* calls of _step made by that generate_sentence
    result,                \* what the last call returned (NoResult if nothing)
    err,                   \* exception the last call raised, "none" if none
    stop,                  \* why the last walk ended: "ending" or "deadend"
    ending,                \* the last value of _is_ending: "yes", "no", "unset"
    lastOp,                \* the last method called on the controller
    upc,                   \* how far a rebuild by update_ngram_size or
                           \* update_context has got: "idle" if none runs
    chain_len              \* len(chain) where chain holds only the last
                           \* tokens of the chain of generate_sentence

vars == <<content_objs, n, context_keywords, transitions, weighted_transitions,
          aliased, start_states, pc, chain, min_length, length_error, start,
          steps, result, err, stop, ending, lastOp, upc, chain_len>>

----------------------------------------------------------------------------
(* Bounds *)

MaxN == 2            \* update_ngram_size is called with the orders 0..MaxN
MaxChain == 5        \* a walk is followed while the chain is shorter
MaxMinLength == 3    \* min_length ranges over 1..MaxMinLength
MaxLengthError == 1  \* length_error ranges over 0..MaxLengthError

Weight == 2          \* default of the weight parameter

----------------------------------------------------------------------------
(* Python sequence primitives *)

Min(a, b) == IF a < b THEN a ELSE b
Max(a, b) == IF a > b THEN a ELSE b

\* s[k:]
PyFrom(s, k) ==
    LET b == IF k < 0 THEN Max(Len(s) + k, 0) ELSE Min(k, Len(s))
    IN  SubSeq(s, b + 1, Len(s))

\* s[:k]
PyTo(s, k) ==
    LET e == IF k < 0 THEN Max(Len(s) + k, 0) ELSE Min(k, Len(s))
    IN  SubSeq(s, 1, e)

RECURSIVE Flatten(_)
\* the concatenation of a sequence of sequences
Flatten(ss) == IF ss = <<>> THEN <<>> ELSE Head(ss) \o Flatten(Tail(ss))

RECURSIVE JoinNoSeparator(_)
\* a variant that joins with the empty separator
JoinNoSeparator(toks) ==
    IF toks = <<>> THEN <<>> ELSE Head(toks) \o JoinNoSeparator(Tail(toks))

RECURSIVE Join(_)
\* ' '.join(tokens)
Join(toks) ==
    IF toks = <<>> THEN <<>>
    ELSE IF Len(toks) = 1 THEN Head(toks)
    ELSE Head(toks) \o <<" ">> \o Join(Tail(toks))

RECURSIVE SplitFrom(_, _)
\* str.split(): cur is the token being read
SplitFrom(str, cur) ==
    IF str = <<>> THEN (IF cur = <<>> THEN <<>> ELSE <<cur>>)
    ELSE IF Head(str) = " "
         THEN (IF cur = <<>> THEN SplitFrom(Tail(str), <<>>)
                             ELSE <<cur>> \o SplitFrom(Tail(str), <<>>))
         ELSE SplitFrom(Tail(str), Append(cur, Head(str)))

Split(str) == SplitFrom(str, <<>>)

RECURSIVE Count(_, _)
\* list.count(x)
Count(list, x) ==
    IF list = <<>> THEN 0
    ELSE (IF Head(list) = x THEN 1 ELSE 0) + Count(Tail(list), x)

RECURSIVE Repeat(_, _)
Repeat(x, k) == IF k <= 0 THEN <<>> ELSE <<x>> \o Repeat(x, k - 1)

RECURSIVE Distinct(_)
\* the distinct elements of a list, in order of first occurrence
Distinct(list) ==
    IF list = <<>> THEN <<>>
    ELSE LET rest == Distinct(PyTo(list, -1))
             x == list[Len(list)]
         IN  IF \E i \in 1..Len(rest) : rest[i] = x THEN rest
             ELSE Append(rest, x)

Range(list) == {list[i] : i \in 1..Len(list)}

----------------------------------------------------------------------------
(* Tokens and corpora *)

tA == <<"a">>
tB == <<"b">>
tE == <<"e", ".">>
tQ == <<"q", "!">>
tUS == <<"U", ".", "S", ".">>
tAB == <<"A", "B">>
tX == <<"x">>

\* A text block is given with the sentences the sentence detector finds in
\* it; the text of the block is their concatenation.
\* "a b e. a b q!"
Block1 == << <<tA, tB, tE>>, <<tA, tB, tQ>> >>
\* "a b a U.S. AB b"
Block2 == << <<tA, tB, tA, tUS, tAB>>, <<tB>> >>
\* "e. b a b"
Block3 == << <<tE>>, <<tB, tA, tB>> >>

Corpora ==
    { << <<Block1>> >>,
      << <<Block2>> >>,
      << <<Block1>>, <<Block3>> >>,
      << >> }

Contexts == { <<>>, <<tB, tB>>, <<tA, tB, tX>> }

Starts == { <<>>, <<" ">>, Join(<<tA>>), Join(<<tB, tE>>), Join(<<tX, tA, tB>>),
            Join(<<tB, tX>>) }

NoResult == <<"<none>">>

----------------------------------------------------------------------------
(* Content objects *)

\* Content.__init__: the object keeps its own n and its parsed text
Content(unit, cn) == [n |-> cn, parsed_text |-> unit]

\* nltk.util.ngrams(seq, k): the windows of k consecutive elements
ngrams(seq, k) ==
    IF Len(seq) < k THEN <<>>
    ELSE [i \in 1..(Len(seq) - k + 1) |-> SubSeq(seq, i, i + k - 1)]

\* one list of (n+1)-tuples per text block, for the n of the Content object
_extract_ngrams(c) ==
    [b \in 1..Len(c.parsed_text) |->
        ngrams(Flatten(c.parsed_text[b]), c.n + 1)]

\* len(s) of a sentence string: its characters, one space between tokens
CharLen(sentence) == Len(Join(sentence))

RECURSIVE SelectStarts(_, _)
\* [tuple(s.split()[:n]) for s in sentences if len(s) >= n]
SelectStarts(sentences, cn) ==
    IF sentences = <<>> THEN <<>>
    ELSE (IF CharLen(Head(sentences)) >= cn
          THEN <<PyTo(Head(sentences), cn)>> ELSE <<>>)
         \o SelectStarts(Tail(sentences), cn)

\* the sentence starts of all blocks, in order (the Counter of them is
\* represented by this list: a count is the number of occurrences)
_extract_start_states(c) ==
    Flatten([b \in 1..Len(c.parsed_text) |->
                SelectStarts(c.parsed_text[b], c.n)])

----------------------------------------------------------------------------
(* Tables *)

EmptyTable == [k \in {} |-> <<>>]

\* defaultdict read of t[k]: the table after the read
Touch(t, k) ==
    IF k \in DOMAIN t THEN t
    ELSE [x \in DOMAIN t \cup {k} |-> IF x = k THEN <<>> ELSE t[x]]

\* t[k].append(s)
TableAppend(t, k, s) == [Touch(t, k) EXCEPT ![k] = Append(@, s)]

\* the list a table holds for k; the empty list if k is not a key
Lookup(t, k) == IF k \in DOMAIN t THEN t[k] ELSE <<>>

RECURSIVE AddNgrams(_, _, _)
\* the loop body of _read_from_content over a list of ngrams
AddNgrams(t, grams, order) ==
    IF grams = <<>> THEN t
    ELSE LET ngram == Head(grams)
             prefix == PyTo(ngram, order)
             suffix == ngram[Len(ngram)]
         IN  AddNgrams(TableAppend(t, prefix, suffix), Tail(grams), order)

\* MarkovChain._read_from_content: content.get_ngram_blocks() yields the
\* blocks of ngrams the Content object holds
_read_from_content(objs, order) ==
    AddNgrams(EmptyTable,
              Flatten([i \in 1..Len(objs) |-> Flatten(_extract_ngrams(objs[i]))]),
              order)

RECURSIVE Elements(_, _, _)
\* list(counter.elements()) after the counts of the keywords among the
\* distinct suffixes ds were multiplied by weight
Elements(ds, list, kw) ==
    IF ds = <<>> THEN <<>>
    ELSE LET s == Head(ds)
             c == Count(list, s)
         IN  Repeat(s, IF s \in kw THEN c * Weight ELSE c)
             \o Elements(Tail(ds), list, kw)

\* a variant that multiplies the suffixes that are not keywords
_analyze_context_inverted(base, kw) ==
    IF kw = {} THEN base
    ELSE [t \in DOMAIN base |->
            Elements(Distinct(base[t]), base[t], Range(base[t]) \ kw)]

\* MarkovChain._analyze_context: the table it returns
_analyze_context(base, kw) ==
    IF kw = {} THEN base
    ELSE [t \in DOMAIN base |-> Elements(Distinct(base[t]), base[t], kw)]

\* whether _analyze_context returned the object self.transitions itself
ReturnsBase(kw) == kw = {}

RECURSIVE Times(_, _)
\* the factor the loop over the words of a start state applies to its count
Times(state, kw) ==
    IF state = <<>> THEN 1
    ELSE (IF Head(state) \in kw THEN Weight ELSE 1) * Times(Tail(state), kw)

RECURSIVE StartElements(_, _, _)
StartElements(ds, list, kw) ==
    IF ds = <<>> THEN <<>>
    ELSE LET s == Head(ds)
         IN  Repeat(s, Count(list, s) * Times(s, kw))
             \o StartElements(Tail(ds), list, kw)

\* MarkovChain._get_start_states
_get_start_states(objs, kw) ==
    LET merged == Flatten([i \in 1..Len(objs) |-> _extract_start_states(objs[i])])
    IN  StartElements(Distinct(merged), merged, kw)

----------------------------------------------------------------------------
(* The walk *)

\* the class [A-Z]
Upper == {"A", "B", "C", "D", "E", "F", "G", "H", "I", "J", "K", "L", "M",
          "N", "O", "P", "Q", "R", "S", "T", "U", "V", "W", "X", "Y", "Z"}

\* "U.S.|U.N.|E.U.|F.B.I.|C.I.A.".split("|")
exceptions ==
    { <<"U", ".", "S", ".">>, <<"U", ".", "N", ".">>, <<"E", ".", "U", ".">>,
      <<"F", ".", "B", ".", "I", ".">>, <<"C", ".", "I", ".", "A", ".">> }

\* len(re.sub(r"[^A-Z]", "", token))
UpperCount(token) == Cardinality({i \in 1..Len(token) : token[i] \in Upper})

\* a variant that tests the uppercase letters before the exceptions
_is_ending_uppercase_first(c) ==
    LET last == c[Len(c)]
    IN  IF UpperCount(last) > 1 THEN TRUE
        ELSE IF last \in exceptions THEN FALSE
        ELSE IF last[Len(last)] \in {"?", "!"} THEN TRUE
        ELSE IF last[Len(last)] = "." THEN TRUE
        ELSE FALSE

\* MarkovChain._is_ending
_is_ending(c) ==
    LET last == c[Len(c)]
    IN  IF last \in exceptions THEN FALSE
        ELSE IF last[Len(last)] \in {"?", "!"} THEN TRUE
        ELSE IF UpperCount(last) > 1 THEN TRUE
        ELSE IF last[Len(last)] = "." THEN TRUE
        ELSE FALSE

\* a variant that measures the start string in characters
TooShortInChars(st, order) == Len(st) < order

\* _valid_start_state: len(start.strip().split()) < self.n
TooShort(st, order) == Len(Split(st)) < order

\* a variant that answers an empty list of start states with the empty state
_select_start_state_lenient(states) ==
    IF states = <<>> THEN {[err |-> "none", chain |-> <<>>]}
    ELSE {[err |-> "none", chain |-> states[i]] : i \in 1..Len(states)}

\* MarkovChain._select_start_state: the outcomes of random.choice, which
\* raises IndexError on an empty list
_select_start_state(states) ==
    IF states = <<>> THEN {[err |-> "IndexError", chain |-> <<>>]}
    ELSE {[err |-> "none", chain |-> states[i]] : i \in 1..Len(states)}

\* MarkovChain._valid_start_state: the chains it may return, or its exception
_valid_start_state(st, order, states) ==
    IF st = <<>> THEN _select_start_state(states)
    ELSE IF TooShort(st, order)
         THEN {[err |-> "MarkovChainException", chain |-> <<>>]}
         ELSE {[err |-> "none", chain |-> Split(st)]}

\* a variant that takes the first tokens of the chain
StepPrefixFromFront(c, order) == PyTo(c, order)

\* the prefix _step looks up: tuple(chain[-self.n:])
StepPrefix(c, order) == PyFrom(c, 0 - order)

\* a variant that lets a chain of exactly min_length - length_error end
BreakOnEndingAtMargin(c, ml, le) == Len(c) >= ml - le /\ _is_ending(c)

\* the break condition of the loop of generate_sentence
BreakOnEnding(c, ml, le) == Len(c) > ml - le /\ _is_ending(c)

----------------------------------------------------------------------------
(* The controller *)

\* the controller after MarkovChain.__init__ on Content objects built with
\* the same n
Constructed(corpus, m, ctx) ==
        LET objs == [i \in 1..Len(corpus) |-> Content(corpus[i], m)]
            base == _read_from_content(objs, m)
        IN  /\ content_objs = objs
            /\ n = m
            /\ context_keywords = Range(ctx)
            /\ transitions = base
            /\ weighted_transitions = _analyze_context(base, Range(ctx))
            /\ aliased = ReturnsBase(Range(ctx))
            /\ start_states = _get_start_states(objs, Range(ctx))
            /\ pc = "idle"
            /\ chain = <<>>
            /\ min_length = 0
            /\ length_error = 0
            /\ start = <<>>
            /\ steps = 0
            /\ result = NoResult
            /\ err = "none"
            /\ stop = "none"
            /\ ending = "unset"
            /\ lastOp = "__init__"
            /\ upc = "idle"
            /\ chain_len = 0

\* MarkovChain.__init__ for the orders the documentation allows
Init ==
    \E corpus \in Corpora, m \in 1..MaxN, ctx \in Contexts :
        Constructed(corpus, m, ctx)

\* what a call that is not generate_sentence leaves of the last walk
NoWalk ==
    /\ chain' = <<>>
    /\ min_length' = 0
    /\ length_error' = 0
    /\ start' = <<>>
    /\ steps' = 0
    /\ result' = NoResult
    /\ err' = "none"
    /\ stop' = "none"
    /\ ending' = "unset"

\* MarkovChain.update_ngram_size
update_ngram_size(m) ==
    /\ pc = "idle"
    /\ n' = m
    /\ transitions' = _read_from_content(content_objs, m)
    /\ weighted_transitions' = _analyze_context(transitions', context_keywords)
    /\ aliased' = ReturnsBase(context_keywords)
    /\ start_states' = _get_start_states(content_objs, context_keywords)
    /\ lastOp' = "update_ngram_size"
    /\ NoWalk
    /\ UNCHANGED <<content_objs, context_keywords, pc, upc, chain_len>>

\* a variant that weights the table of the previous context again
update_context_accumulating(context) ==
    /\ pc = "idle"
    /\ context_keywords' = Range(context)
    /\ weighted_transitions' =
           _analyze_context(weighted_transitions, context_keywords')
    /\ aliased' = ReturnsBase(context_keywords')
    /\ start_states' = _get_start_states(content_objs, context_keywords')
    /\ lastOp' = "update_context"
    /\ NoWalk
    /\ UNCHANGED <<content_objs, n, transitions, pc, upc, chain_len>>

\* a variant that keeps the start states of the previous context
update_context_stale_starts(context) ==
    /\ pc = "idle"
    /\ context_keywords' = Range(context)
    /\ weighted_transitions' = _analyze_context(transitions, context_keywords')
    /\ aliased' = ReturnsBase(context_keywords')
    /\ lastOp' = "update_context"
    /\ NoWalk
    /\ UNCHANGED <<content_objs, n, transitions, start_states, pc, upc,
                   chain_len>>

\* MarkovChain.update_context
update_context(context) ==
    /\ pc = "idle"
    /\ context_keywords' = Range(context)
    /\ weighted_transitions' = _analyze_context(transitions, context_keywords')
    /\ aliased' = ReturnsBase(context_keywords')
    /\ start_states' = _get_start_states(content_objs, context_keywords')
    /\ lastOp' = "update_context"
    /\ NoWalk
    /\ UNCHANGED <<content_objs, n, transitions, pc, upc, chain_len>>

\* generate_sentence up to the loop: _valid_start_state.  The walks of the
\* model are those of an order of at least 1.
generate_sentence(st, ml, le) ==
    /\ pc = "idle"
    /\ n >= 1
    /\ lastOp' = "generate_sentence"
    /\ start' = st
    /\ min_length' = ml
    /\ length_error' = le
    /\ steps' = 0
    /\ result' = NoResult
    /\ stop' = "none"
    /\ ending' = "unset"
    /\ \E o \in _valid_start_state(st, n, start_states) :
          /\ err' = o.err
          /\ chain' = o.chain
          /\ pc' = IF o.err = "none" THEN "walking" ELSE "returned"
    /\ UNCHANGED <<content_objs, n, context_keywords, transitions,
                   weighted_transitions, aliased, start_states, upc,
                   chain_len>>

\* one iteration of the loop of generate_sentence: _step, then the test of
\* the ending; the return follows a break at once
Iterate ==
    /\ pc = "walking"
    /\ Len(chain) < MaxChain
    /\ LET prefix == StepPrefix(chain, n)
       IN  /\ weighted_transitions' = Touch(weighted_transitions, prefix)
           /\ transitions' = IF aliased THEN Touch(transitions, prefix)
                                        ELSE transitions
           /\ steps' = steps + 1
           /\ IF Lookup(weighted_transitions, prefix) = <<>>
              THEN \* _step raises, the loop breaks
                   /\ chain' = chain
                   /\ stop' = "deadend"
                   /\ ending' = ending
                   /\ result' = Join(chain)
                   /\ pc' = "returned"
              ELSE \E i \in 1..Len(weighted_transitions[prefix]) :
                    LET c == Append(chain, weighted_transitions[prefix][i])
                    IN  /\ chain' = c
                        /\ ending' = IF Len(c) > min_length - length_error
                                     THEN (IF _is_ending(c) THEN "yes" ELSE "no")
                                     ELSE ending
                        /\ IF BreakOnEnding(c, min_length, length_error)
                           THEN /\ stop' = "ending"
                                /\ result' = Join(c)
                                /\ pc' = "returned"
                           ELSE /\ stop' = "none"
                                /\ result' = NoResult
                                /\ pc' = "walking"
    /\ UNCHANGED <<content_objs, n, context_keywords, aliased, start_states,
                   min_length, length_error, start, err, lastOp, upc,
                   chain_len>>

\* the call of generate_sentence is over: its chain and arguments are gone
\* and the caller has the string or the exception
Return ==
    /\ pc = "returned"
    /\ pc' = "idle"
    /\ NoWalk
    /\ UNCHANGED <<content_objs, n, context_keywords, transitions,
                   weighted_transitions, aliased, start_states, lastOp, upc,
                   chain_len>>

Next ==
    \/ \E m \in 0..MaxN : update_ngram_size(m)
    \/ \E context \in Contexts : update_context(context)
    \/ \E st \in Starts, ml \in 1..MaxMinLength, le \in 0..MaxLengthError :
          generate_sentence(st, ml, le)
    \/ Iterate
    \/ Return

Spec == Init /\ [][Next]_vars

----------------------------------------------------------------------------
(* A second thread calls update_ngram_size and update_context while a call  *)
(* of generate_sentence runs: the methods take no lock, and each assignment *)
(* to a field of the controller is a step of its own.                       *)

\* the frame of the thread that runs generate_sentence
ReaderFrame ==
    UNCHANGED <<pc, chain, min_length, length_error, start, steps, result,
                err, stop, ending, lastOp, chain_len>>

\* update_ngram_size: self.n = n
SetOrder(m) ==
    /\ upc = "idle"
    /\ n' = m
    /\ upc' = "n_set"
    /\ ReaderFrame
    /\ UNCHANGED <<content_objs, context_keywords, transitions,
                   weighted_transitions, aliased, start_states>>

\* update_ngram_size: self.transitions = self._read_from_content()
ReadFromContent ==
    /\ upc = "n_set"
    /\ transitions' = _read_from_content(content_objs, n)
    /\ upc' = "base_set"
    /\ ReaderFrame
    /\ UNCHANGED <<content_objs, n, context_keywords, weighted_transitions,
                   aliased, start_states>>

\* update_context: self.context_keywords = {k: True for k in context}
SetContext(context) ==
    /\ upc = "idle"
    /\ context_keywords' = Range(context)
    /\ upc' = "keywords_set"
    /\ ReaderFrame
    /\ UNCHANGED <<content_objs, n, transitions, weighted_transitions,
                   aliased, start_states>>

\* both methods: self.weighted_transitions = self._analyze_context()
AnalyzeContext ==
    /\ upc \in {"base_set", "keywords_set"}
    /\ weighted_transitions' = _analyze_context(transitions, context_keywords)
    /\ aliased' = ReturnsBase(context_keywords)
    /\ upc' = "weighted_set"
    /\ ReaderFrame
    /\ UNCHANGED <<content_objs, n, context_keywords, transitions,
                   start_states>>

\* both methods: self.start_states = self._get_start_states()
GetStartStates ==
    /\ upc = "weighted_set"
    /\ start_states' = _get_start_states(content_objs, context_keywords)
    /\ upc' = "idle"
    /\ ReaderFrame
    /\ UNCHANGED <<content_objs, n, context_keywords, transitions,
                   weighted_transitions, aliased>>

ConcCorpus == << <<Block1>> >>

InitConc == \E m \in 1..MaxN : Constructed(ConcCorpus, m, <<>>)

NextConc ==
    \/ \E m \in 1..MaxN : SetOrder(m)
    \/ ReadFromContent
    \/ \E context \in Contexts : SetContext(context)
    \/ AnalyzeContext
    \/ GetStartStates
    \/ \E ml \in 1..MaxMinLength : generate_sentence(<<>>, ml, 0)
    \/ Iterate
    \/ Return

SpecConc == InitConc /\ [][NextConc]_vars

----------------------------------------------------------------------------
(* The walk without a bound on its length.  The loop of generate_sentence   *)
(* reads of its chain only the last n tokens, the last token and the        *)
(* length, and compares the length with min_length - length_error: chain    *)
(* holds the last n tokens and chain_len the length, counted up to LenCap.  *)
(* The string returned is not part of this specification.                   *)

LenCap == MaxMinLength + 1

\* "a b a"
BlockLoop == << <<tA, tB, tA>> >>

TermCorpora == { << <<Block1>> >>, << <<Block2>> >>, << <<BlockLoop>> >> }

TermStarts == { <<>>, Join(<<tB, tE>>), Join(<<tX, tA, tB>>) }

TermTokens == {tA, tB, tE, tQ, tUS, tAB}

\* the keys of the tables of the corpora
TermKeys ==
    UNION { DOMAIN _read_from_content(
                [i \in 1..Len(corpus) |-> Content(corpus[i], m)], m) :
            corpus \in TermCorpora, m \in 1..MaxN }

\* a variant that does not append the suffix
AdvanceStuck(window, s, order) == window

\* chain.append(suffix), of which the next _step reads chain[-n:]
Advance(window, s, order) == StepPrefix(Append(window, s), order)

\* the break condition of the loop on the length and the last tokens
WindowBreak(len, c, ml, le) == len > ml - le /\ _is_ending(c)

InitTerm ==
    \E corpus \in TermCorpora, m \in 1..MaxN, ctx \in {<<>>, <<tB, tB>>} :
        Constructed(corpus, m, ctx)

\* generate_sentence up to the loop
BeginWalk(st, ml, le) ==
    /\ pc = "idle"
    /\ lastOp' = "generate_sentence"
    /\ start' = st
    /\ min_length' = ml
    /\ length_error' = le
    /\ result' = NoResult
    /\ stop' = "none"
    /\ ending' = "unset"
    /\ \E o \in _valid_start_state(st, n, start_states) :
          /\ err' = o.err
          /\ chain' = StepPrefix(o.chain, n)
          /\ chain_len' = Min(Len(o.chain), LenCap)
          /\ pc' = IF o.err = "none" THEN "walking" ELSE "returned"
    /\ UNCHANGED <<content_objs, n, context_keywords, transitions,
                   weighted_transitions, aliased, start_states, steps, upc>>

\* an iteration of the loop in which _step chooses suffix s for the key k
StepTo(k, s) ==
    /\ pc = "walking"
    /\ chain = k
    /\ s \in Range(Lookup(weighted_transitions, StepPrefix(k, n)))
    /\ LET c == Advance(k, s, n)
           len == Min(chain_len + 1, LenCap)
       IN  /\ chain' = c
           /\ chain_len' = len
           /\ ending' = IF len > min_length - length_error
                        THEN (IF _is_ending(c) THEN "yes" ELSE "no")
                        ELSE ending
           /\ IF WindowBreak(len, c, min_length, length_error)
              THEN stop' = "ending" /\ pc' = "returned"
              ELSE stop' = "none" /\ pc' = "walking"
    /\ UNCHANGED <<content_objs, n, context_keywords, transitions,
                   weighted_transitions, aliased, start_states, min_length,
                   length_error, start, steps, result, err, lastOp, upc>>

\* an iteration of the loop in which _step raises: the loop breaks
DeadEnd ==
    /\ pc = "walking"
    /\ Lookup(weighted_transitions, StepPrefix(chain, n)) = <<>>
    /\ weighted_transitions' =
           Touch(weighted_transitions, StepPrefix(chain, n))
    /\ transitions' = IF aliased THEN Touch(transitions, StepPrefix(chain, n))
                                 ELSE transitions
    /\ stop' = "deadend"
    /\ pc' = "returned"
    /\ UNCHANGED <<content_objs, n, context_keywords, aliased, start_states,
                   chain, min_length, length_error, start, steps, result,
                   err, ending, lastOp, upc, chain_len>>

\* the call of generate_sentence is over
WalkReturn ==
    /\ pc = "returned"
    /\ pc' = "idle"
    /\ NoWalk
    /\ chain_len' = 0
    /\ UNCHANGED <<content_objs, n, context_keywords, transitions,
                   weighted_transitions, aliased, start_states, lastOp, upc>>

NextTerm ==
    \/ \E st \in TermStarts, ml \in 1..MaxMinLength, le \in 0..MaxLengthError :
          BeginWalk(st, ml, le)
    \/ \E k \in TermKeys, s \in TermTokens : StepTo(k, s)
    \/ DeadEnd
    \/ WalkReturn

\* random.choice: a suffix that can be chosen for a key again and again is
\* chosen at some time; the loop goes on while it has not ended
FairChoice ==
    /\ WF_vars(DeadEnd)
    /\ \A s \in TermTokens : SF_vars(\E k \in TermKeys : StepTo(k, s))

SpecTerm == InitTerm /\ [][NextTerm]_vars /\ FairChoice

----------------------------------------------------------------------------
(* _is_ending on its own: every token over a small alphabet *)

MaxTokLen == 4

Alphabet == {"a", "U", "S", ".", "?", "!"}

EndingTokens == UNION {[1..k -> Alphabet] : k \in 1..MaxTokLen} \cup exceptions

InitEnding ==
    /\ \E t \in EndingTokens : chain = <<t>>
    /\ pc = "token"
    /\ ending = "unset"
    /\ content_objs = <<>>
    /\ n = 1
    /\ context_keywords = {}
    /\ transitions = EmptyTable
    /\ weighted_transitions = EmptyTable
    /\ aliased = TRUE
    /\ start_states = <<>>
    /\ min_length = 0
    /\ length_error = 0
    /\ start = <<>>
    /\ steps = 0
    /\ result = NoResult
    /\ err = "none"
    /\ stop = "none"
    /\ lastOp = "_is_ending"
    /\ upc = "idle"
    /\ chain_len = 0

\* the call self._is_ending(chain)
ApplyIsEnding ==
    /\ pc = "token"
    /\ ending' = IF _is_ending(chain) THEN "yes" ELSE "no"
    /\ pc' = "tested"
    /\ UNCHANGED <<content_objs, n, context_keywords, transitions,
                   weighted_transitions, aliased, start_states, chain,
                   min_length, length_error, start, steps, result, err, stop,
                   lastOp, upc, chain_len>>

NextEnding == ApplyIsEnding

SpecEnding == InitEnding /\ [][NextEnding]_vars

----------------------------------------------------------------------------

TypeOK ==
    /\ pc \in {"idle", "walking", "returned", "token", "tested"}
    /\ n \in 0..MaxN
    /\ aliased \in BOOLEAN
    /\ Len(chain) <= MaxChain
    /\ upc \in {"idle", "n_set", "base_set", "keywords_set", "weighted_set"}
    /\ chain_len \in 0..LenCap

----------------------------------------------------------------------------
(* Properties *)

\* the table _read_from_content builds from the corpus at the current order
Built == _read_from_content(content_objs, n)

\* every token that occurs in a suffix list of table t
SuffixesOf(t) == UNION {Range(t[k]) : k \in DOMAIN t}

AllKeys == DOMAIN transitions \cup DOMAIN weighted_transitions

AllSuffixes == SuffixesOf(transitions) \cup SuffixesOf(weighted_transitions)

\* C1: after update_context(K) the weighted table holds a suffix s at a
\* prefix exactly twice as often as the base table when s is a keyword and
\* exactly as often when it is not.
C1_WeightingExact ==
    lastOp = "update_context" =>
        \A k \in AllKeys : \A s \in AllSuffixes :
            Count(Lookup(weighted_transitions, k), s) =
                IF s \in context_keywords
                THEN 2 * Count(Lookup(transitions, k), s)
                ELSE Count(Lookup(transitions, k), s)

\* a context is set under which some prefix has a keyword suffix and a
\* suffix that is not a keyword
C1_Witness ==
    /\ lastOp = "update_context"
    /\ \E k \in DOMAIN transitions :
          /\ \E s \in Range(transitions[k]) : s \in context_keywords
          /\ \E s \in Range(transitions[k]) : s \notin context_keywords

\* C2: after update_context([]) the weighted table holds, at every prefix,
\* the same bag of suffixes as the table built from the corpus.
C2_ClearedContextIsBase ==
    (lastOp = "update_context" /\ context_keywords = {}) =>
        \A k \in DOMAIN weighted_transitions \cup DOMAIN Built :
            \A s \in SuffixesOf(weighted_transitions) \cup SuffixesOf(Built) :
                Count(Lookup(weighted_transitions, k), s) =
                    Count(Lookup(Built, k), s)

\* the context was cleared on a table that has suffixes, after a walk
\* looked up a prefix the corpus does not have
C2_Witness ==
    /\ lastOp = "update_context"
    /\ context_keywords = {}
    /\ SuffixesOf(weighted_transitions) # {}
    /\ DOMAIN weighted_transitions # DOMAIN Built

\* C3: no step other than one of update_ngram_size changes the base table.
C3_BaseNeverMutated ==
    [][lastOp' # "update_ngram_size" => transitions' = transitions]_vars

\* in some text block s comes right after the tokens of k
FollowsInCorpus(k, s) ==
    \E i \in 1..Len(content_objs) :
        \E b \in 1..Len(content_objs[i].parsed_text) :
            LET toks == Flatten(content_objs[i].parsed_text[b])
            IN  \E j \in 1..Len(toks) :
                    /\ j + Len(k) <= Len(toks)
                    /\ SubSeq(toks, j, j + Len(k) - 1) = k
                    /\ toks[j + Len(k)] = s

\* C4: after __init__ and after update_ngram_size with an order of at least
\* 1 on a corpus that is not empty, every key of the base table has exactly
\* n tokens and each of its suffixes follows it in the corpus.
C4_KeysHaveOrder ==
    (lastOp \in {"__init__", "update_ngram_size"} /\ n >= 1
        /\ content_objs # <<>>) =>
        \A k \in DOMAIN transitions :
            /\ Len(k) = n
            /\ \A s \in Range(transitions[k]) : FollowsInCorpus(k, s)

\* C5: every key of the base table and of the weighted table has at least
\* one suffix.
C5_NoEmptySuffixList ==
    /\ \A k \in DOMAIN transitions : transitions[k] # <<>>
    /\ \A k \in DOMAIN weighted_transitions : weighted_transitions[k] # <<>>

\* C6: a sentence returned because of the ending condition has more than
\* min_length - length_error tokens and its last token is an ending.
C6_EndingLength ==
    (pc = "returned" /\ stop = "ending") =>
        /\ Len(Split(result)) > min_length - length_error
        /\ _is_ending(Split(result))

\* a walk ended on an ending token inside the margin: its sentence has
\* exactly min_length tokens and the margin is not zero
C6_Witness ==
    /\ pc = "returned"
    /\ stop = "ending"
    /\ length_error > 0
    /\ Len(Split(result)) = min_length

\* the abbreviations U.S., U.N., E.U., F.B.I. and C.I.A.
ProtectedAbbreviations ==
    { <<"U", ".", "S", ".">>, <<"U", ".", "N", ".">>, <<"E", ".", "U", ".">>,
      <<"F", ".", "B", ".", "I", ".">>, <<"C", ".", "I", ".", "A", ".">> }

\* C7: a protected abbreviation is never an ending; any other token is an
\* ending exactly if it ends in "?" or "!", or has more than one uppercase
\* letter, or ends in ".".
C7_EndingRules ==
    pc = "tested" =>
        LET t == chain[1]
            last == t[Len(t)]
            uppers == Cardinality({i \in 1..Len(t) : t[i] \in {"U", "S", "N",
                          "E", "F", "B", "I", "C", "A"}})
        IN  IF t \in ProtectedAbbreviations THEN ending = "no"
            ELSE IF last \in {"?", "!"} THEN ending = "yes"
            ELSE IF uppers > 1 THEN ending = "yes"
            ELSE IF last = "." THEN ending = "yes"
            ELSE ending = "no"

\* _is_ending was applied to U.S. and said no
C7_Witness ==
    /\ pc = "tested"
    /\ chain = << <<"U", ".", "S", ".">> >>
    /\ ending = "no"

\* C8: generate_sentence with a start string that is not empty and splits
\* into fewer than n tokens raises the exception, makes no step, returns no
\* sentence and changes neither n, the keywords, the tables nor the start
\* states.
C8_InvalidStart ==
    [][(pc = "idle" /\ lastOp' = "generate_sentence" /\ start' # <<>>
            /\ Len(Split(start')) < n) =>
        /\ pc' = "returned"
        /\ err' = "MarkovChainException"
        /\ steps' = 0
        /\ result' = NoResult
        /\ UNCHANGED <<n, context_keywords, transitions,
                       weighted_transitions, start_states>>]_vars

\* a start string of white space only was refused
C8_Witness ==
    /\ pc = "returned"
    /\ err = "MarkovChainException"
    /\ start # <<>>
    /\ Split(start) = <<>>
    /\ steps = 0

\* the last k tokens of chain c, all of them if it has fewer
LastTokens(c, k) == SubSeq(c, Max(1, Len(c) - k + 1), Len(c))

\* the tokens of str are separated by exactly one space each, with no space
\* at either end
SingleSpaced(str) ==
    /\ str # <<>> => (str[1] # " " /\ str[Len(str)] # " ")
    /\ \A i \in 1..(Len(str) - 1) : ~(str[i] = " " /\ str[i + 1] = " ")

\* C9: when the last n tokens of the chain have no continuation, the step
\* of the walk ends the call without an error and returns the tokens of the
\* chain joined by single spaces; at the first step of a walk from a start
\* override these are the tokens of the override.
C9_DeadEndNotSurfaced ==
    [][(pc = "walking"
            /\ Lookup(weighted_transitions, LastTokens(chain, n)) = <<>>) =>
        /\ pc' = "returned"
        /\ err' = "none"
        /\ Split(result') = chain
        /\ SingleSpaced(result')
        /\ (steps = 0 /\ start # <<>>) => Split(result') = Split(start)]_vars

\* a start override of two tokens met a dead end at the first step and was
\* returned as it is
C9_Witness ==
    /\ pc = "returned"
    /\ stop = "deadend"
    /\ err = "none"
    /\ steps = 1
    /\ Len(Split(start)) = 2
    /\ result = start

\* C10: the controller never works with an order below 1: __init__ and
\* update_ngram_size refuse such an order.
C10_OrderAtLeastOne ==
    lastOp \in {"__init__", "update_ngram_size"} => n >= 1

\* C11: generate_sentence without a start string on a controller that has
\* no start states raises an error to the caller, returns no sentence and
\* makes no step.
C11_EmptyModel ==
    [][(pc = "idle" /\ lastOp' = "generate_sentence" /\ start' = <<>>
            /\ start_states = <<>>) =>
        /\ pc' = "returned"
        /\ err' # "none"
        /\ result' = NoResult
        /\ steps' = 0
        /\ chain' = <<>>]_vars

\* a call without a start string on an empty list of start states has
\* raised the error of random.choice
C11_Witness ==
    /\ pc = "returned"
    /\ start = <<>>
    /\ start_states = <<>>
    /\ err = "IndexError"
    /\ result = NoResult

\* the start states the Content objects hold, before any weighting
BaseStarts ==
    Flatten([i \in 1..Len(content_objs) |->
                _extract_start_states(content_objs[i])])

\* C12: a start state that occurs c times in the Content objects occurs
\* exactly 2 * c times among the weighted start states if one or more of its
\* tokens are keywords, and exactly c times otherwise.
C12_StartStateWeighting ==
    \A s \in Range(BaseStarts) \cup Range(start_states) :
        Count(start_states, s) =
            IF \E i \in 1..Len(s) : s[i] \in context_keywords
            THEN 2 * Count(BaseStarts, s)
            ELSE Count(BaseStarts, s)

\* the weighted table a completed rebuild leaves for the n, the keywords
\* and the Content objects of the controller
Rebuilt == _analyze_context(Built, context_keywords)

\* n, the weighted table and the start states are those of one completed
\* rebuild (a lookup of a missing prefix may have added it with no suffix)
ConsistentSnapshot ==
    /\ \A k \in DOMAIN weighted_transitions \cup DOMAIN Rebuilt :
          \A s \in SuffixesOf(weighted_transitions) \cup SuffixesOf(Rebuilt) :
              Count(Lookup(weighted_transitions, k), s) =
                  Count(Lookup(Rebuilt, k), s)
    /\ start_states = _get_start_states(content_objs, context_keywords)

\* C13: the choice of the start state and every step of a walk read an n,
\* a weighted table and start states that belong to one completed rebuild,
\* also when update_ngram_size or update_context run at the same time.
C13_ReadersSeeSnapshot ==
    [][((pc = "idle" /\ pc' # "idle") \/ steps' = steps + 1) =>
            ConsistentSnapshot]_vars

C15_StartStatesHaveOrder ==
    \A i \in 1..Len(start_states) : Len(start_states[i]) = n

\* the Content objects of a controller constructed anew with the order n
FreshObjs ==
    [i \in 1..Len(content_objs) |-> Content(content_objs[i].parsed_text, n)]

FreshWeighted ==
    _analyze_context(_read_from_content(FreshObjs, n), context_keywords)

FreshStarts == _get_start_states(FreshObjs, context_keywords)

\* C17: after update_context(K) on a controller whose order was set at its
\* construction, the weighted table and the start states hold the same bags
\* as those of a controller constructed anew with the same corpus, n and K.
C17_HistoryIndependent ==
    (lastOp = "update_context" /\ content_objs = FreshObjs) =>
        /\ \A k \in DOMAIN weighted_transitions \cup DOMAIN FreshWeighted :
              \A s \in SuffixesOf(weighted_transitions)
                          \cup SuffixesOf(FreshWeighted) :
                  Count(Lookup(weighted_transitions, k), s) =
                      Count(Lookup(FreshWeighted, k), s)
        /\ \A st \in Range(start_states) \cup Range(FreshStarts) :
              Count(start_states, st) = Count(FreshStarts, st)

\* keywords were set after a walk had looked up a prefix that the corpus
\* does not have, and some suffix and some start state are weighted
C17_Witness ==
    /\ lastOp = "update_context"
    /\ content_objs = FreshObjs
    /\ context_keywords # {}
    /\ DOMAIN weighted_transitions # DOMAIN FreshWeighted
    /\ \E k \in DOMAIN transitions :
          Len(weighted_transitions[k]) > Len(transitions[k])
    /\ Len(start_states) > Len(BaseStarts)

\* C18: the weighted table has the keys of the base table and, at each key,
\* the same set of suffixes; a token that a step appended to the chain is a
\* suffix the base table holds for the n tokens before it.
C18_WalkValidity ==
    /\ DOMAIN weighted_transitions = DOMAIN transitions
    /\ \A k \in DOMAIN transitions :
          Range(weighted_transitions[k]) = Range(transitions[k])
    /\ (pc \in {"walking", "returned"} /\ err = "none" /\ stop # "deadend"
            /\ steps >= 1) =>
          chain[Len(chain)] \in
              Range(Lookup(transitions,
                           LastTokens(SubSeq(chain, 1, Len(chain) - 1), n)))

\* the keys a walk at key k can have after its next step
NextKeys(k) ==
    {LastTokens(Append(k, s), n) : s \in Range(Lookup(weighted_transitions, k))}

RECURSIVE KeysFrom(_)
\* the keys a walk can have that has one of the keys of S
KeysFrom(S) ==
    LET T == S \cup UNION {NextKeys(k) : k \in S}
    IN  IF T = S THEN S ELSE KeysFrom(T)

\* key k has no continuation, or one of its suffixes is an ending token
EndsAt(k) ==
    \/ Lookup(weighted_transitions, k) = <<>>
    \/ \E s \in Range(Lookup(weighted_transitions, k)) : _is_ending(<<s>>)

RECURSIVE CanEnd(_, _)
\* the keys of U from which a walk can come to a key where it may end,
\* given that it can from the keys of G
CanEnd(U, G) ==
    LET H == G \cup {k \in U : EndsAt(k) \/ NextKeys(k) \cap G # {}}
    IN  IF H = G THEN G ELSE CanEnd(U, H)

\* from every key the walk can still have, a dead end or an ending token
\* can be reached
EscapeReachable ==
    LET U == KeysFrom({chain}) IN CanEnd(U, {}) = U

\* C16: a walk from whose keys a dead end or an ending token can always be
\* reached comes to its end, if every suffix that can be chosen again and
\* again is chosen at some time.
C16_WalkTerminates ==
    (pc = "walking" /\ EscapeReachable) ~> (pc = "returned")

\* a walk has ended on an ending token with a chain longer than any
\* min_length, in a table where its last key lies on a cycle
C16_Witness ==
    /\ pc = "returned"
    /\ stop = "ending"
    /\ chain_len = LenCap
    /\ chain \in KeysFrom(NextKeys(chain))

====
